---- MODULE Spec2Model ----
(***************************************************************************)
(* The debounce controller of src/unnamed/part_000 (function debounce).    *)
(*                                                                         *)
(* The closure variables of debounce (timer, lastArgs, lastThis,           *)
(* lastCallTime, lastInvokeTime, result) and its options are the program   *)
(* state.  The host supplies a clock (Date.now) and a deferred-task        *)
(* scheduler (setTimeout / clearTimeout): now, tasks, nextId.  The wrapped *)
(* function fn is opaque: it returns Fn(this, args) or throws.             *)
(* The remaining variables are history variables that record what an       *)
(* observer of the proxy sees (which operation ran, whether fn was         *)
(* applied, to what, and what was returned).                               *)
(***************************************************************************)
EXTENDS Integers, FiniteSets, Sequences, TLC

(* ------------------------------ bounds --------------------------------- *)
\* The clock runs from 1 to MaxTime.
MaxTime == 5
\* At most MaxCalls proxy calls are made in a run.
MaxCalls == 3

(* ------------------------------ values --------------------------------- *)
\* null: the value of timer, lastArgs, lastThis when nothing is held.
Null == 0
\* undefined: the value of result before fn has ever returned.
Undefined == 0
\* options.maxWait left undefined.
NoMaxWait == -1

\* Argument lists and receivers a caller may pass, and the callers explored:
\* each passes its own receiver and its own arguments.
Args == {1, 2}
Contexts == {1, 2}
Callers == {[args |-> 1, this |-> 1], [args |-> 2, this |-> 2]}
\* Values of the wait parameter and of options.maxWait that are explored.
Waits == {2, 3}
MaxWaits == {NoMaxWait, 2, 4}

\* The wrapped function: a result that tells receiver and arguments apart.
Fn(this, args) == 10 * this + args

VARIABLES
    \* configuration, fixed at construction
    wait, leading, trailing, maxWait,
    \* closure state of debounce
    timer, lastArgs, lastThis, lastCallTime, lastInvokeTime, result,
    \* host: clock, scheduler, and whether fn is one that may throw
    now, tasks, nextId, throws,
    \* history
    ev, callCount, execCount, sinceCall,
    callArgs, callThis, winCalls, winExecs, steady, cancelled,
    \* the example program: how many of its scheduled steps have run
    pc

config == <<wait, leading, trailing, maxWait>>
closure == <<timer, lastArgs, lastThis, lastCallTime, lastInvokeTime, result>>
host == <<now, tasks, nextId, throws>>
history == <<ev, callCount, execCount, sinceCall,
             callArgs, callThis, winCalls, winExecs, steady, cancelled>>
vars == <<config, closure, host, history, pc>>

(* --------------------- the machine within one operation ----------------- *)
\* The closure state and the scheduler as one record, threaded through the
\* statements of an operation; applied/appArgs/appThis/threw record the
\* application of fn made by the operation.
Machine ==
    [timer |-> timer, lastArgs |-> lastArgs, lastThis |-> lastThis,
     lastCallTime |-> lastCallTime, lastInvokeTime |-> lastInvokeTime,
     result |-> result, tasks |-> tasks, nextId |-> nextId,
     applied |-> 0, appArgs |-> Null, appThis |-> Null, threw |-> FALSE]

\* clearTimeout(id): the task is no longer scheduled.
clearTimeout(m, id) ==
    [m EXCEPT !.tasks = {t \in m.tasks : t.id # id}]

\* setTimeout(f, delay): a fresh handle, due delay after the current time.
setTimeout(m, delay) ==
    [m EXCEPT !.tasks = @ \cup {[id |-> m.nextId, due |-> now + delay]},
              !.timer = m.nextId,
              !.nextId = @ + 1]

\* A startTimer that forgets to clear the replaced timer.
startTimerNoClear(m) ==
    setTimeout(m, wait)

startTimer(m) ==
    setTimeout(IF m.timer # Null THEN clearTimeout(m, m.timer) ELSE m, wait)

\* An invokeFunc that keeps the arguments after applying fn.
invokeFuncKeepArgs(m, time, ok) ==
    LET m1 == [m EXCEPT !.lastInvokeTime = time,
                        !.applied = @ + 1,
                        !.appArgs = m.lastArgs,
                        !.appThis = m.lastThis]
    IN  IF ok
        THEN [m1 EXCEPT !.result = Fn(m.lastThis, m.lastArgs)]
        ELSE [m1 EXCEPT !.threw = TRUE]

\* ok = FALSE: fn throws, and the statements after fn.apply do not run.
invokeFunc(m, time, ok) ==
    LET m1 == [m EXCEPT !.lastInvokeTime = time,
                        !.applied = @ + 1,
                        !.appArgs = m.lastArgs,
                        !.appThis = m.lastThis]
    IN  IF ok
        THEN [m1 EXCEPT !.result = Fn(m.lastThis, m.lastArgs),
                        !.lastArgs = Null,
                        !.lastThis = Null]
        ELSE [m1 EXCEPT !.threw = TRUE]

\* A shouldInvoke without the never-invoked case.
shouldInvokeNoSentinel(m, time) ==
    IF maxWait # NoMaxWait
    THEN time - m.lastInvokeTime >= maxWait
    ELSE FALSE

shouldInvoke(m, time) ==
    IF m.lastInvokeTime = 0
    THEN TRUE
    ELSE IF maxWait # NoMaxWait
         THEN time - m.lastInvokeTime >= maxWait
         ELSE FALSE

\* A trailingEdge that, with nothing to execute, also forgets the last
\* execution time.
trailingEdgeResetInvoke(m, time, ok) ==
    LET m1 == [m EXCEPT !.timer = Null]
    IN  IF trailing /\ m1.lastArgs # Null
        THEN invokeFunc(m1, time, ok)
        ELSE [m1 EXCEPT !.lastArgs = Null, !.lastThis = Null,
                        !.lastInvokeTime = 0]

\* A trailingEdge that ignores the trailing option.
trailingEdgeAlways(m, time, ok) ==
    LET m1 == [m EXCEPT !.timer = Null]
    IN  IF m1.lastArgs # Null
        THEN invokeFunc(m1, time, ok)
        ELSE [m1 EXCEPT !.lastArgs = Null, !.lastThis = Null]

trailingEdge(m, time, ok) ==
    LET m1 == [m EXCEPT !.timer = Null]
    IN  IF trailing /\ m1.lastArgs # Null
        THEN invokeFunc(m1, time, ok)
        ELSE [m1 EXCEPT !.lastArgs = Null, !.lastThis = Null]

\* A proxy call that restarts an outstanding timer on every call.
debouncedRestart(m, args, this, ok) ==
    LET isInvoking == shouldInvoke(m, now)
        m1 == [m EXCEPT !.lastArgs = args, !.lastThis = this,
                        !.lastCallTime = now]
    IN  IF isInvoking /\ m1.timer = Null
        THEN LET m2 == IF leading THEN invokeFunc(m1, now, ok) ELSE m1
             IN  IF m2.threw THEN m2 ELSE startTimer(m2)
        ELSE startTimer(m1)

\* A proxy call that keeps the arguments of the call that opened the window.
debouncedKeepFirst(m, args, this, ok) ==
    LET isInvoking == shouldInvoke(m, now)
        m1 == IF m.timer = Null
              THEN [m EXCEPT !.lastArgs = args, !.lastThis = this,
                             !.lastCallTime = now]
              ELSE [m EXCEPT !.lastCallTime = now]
    IN  IF isInvoking
        THEN IF m1.timer = Null
             THEN LET m2 == IF leading THEN invokeFunc(m1, now, ok) ELSE m1
                  IN  IF m2.threw THEN m2 ELSE startTimer(m2)
             ELSE IF maxWait # NoMaxWait THEN startTimer(m1) ELSE m1
        ELSE IF m1.timer = Null THEN startTimer(m1) ELSE m1

\* The proxy: debounced(...args) with receiver this.
debounced(m, args, this, ok) ==
    LET isInvoking == shouldInvoke(m, now)
        m1 == [m EXCEPT !.lastArgs = args, !.lastThis = this,
                        !.lastCallTime = now]
    IN  IF isInvoking
        THEN IF m1.timer = Null
             THEN LET m2 == IF leading THEN invokeFunc(m1, now, ok) ELSE m1
                  IN  IF m2.threw THEN m2 ELSE startTimer(m2)
             ELSE IF maxWait # NoMaxWait THEN startTimer(m1) ELSE m1
        ELSE IF m1.timer = Null THEN startTimer(m1) ELSE m1

\* A cancel that also drops the stored result.
cancelResetResult(m) ==
    LET m1 == IF m.timer # Null
              THEN [clearTimeout(m, m.timer) EXCEPT !.timer = Null]
              ELSE m
    IN  [m1 EXCEPT !.lastArgs = Null, !.lastThis = Null,
                   !.lastInvokeTime = 0, !.result = Undefined]

\* A cancel that leaves lastInvokeTime alone.
cancelKeepInvokeTime(m) ==
    LET m1 == IF m.timer # Null
              THEN [clearTimeout(m, m.timer) EXCEPT !.timer = Null]
              ELSE m
    IN  [m1 EXCEPT !.lastArgs = Null, !.lastThis = Null]

cancel(m) ==
    LET m1 == IF m.timer # Null
              THEN [clearTimeout(m, m.timer) EXCEPT !.timer = Null]
              ELSE m
    IN  [m1 EXCEPT !.lastArgs = Null, !.lastThis = Null,
                   !.lastInvokeTime = 0]

\* A flush that forgets clearTimeout.
flushNoClear(m, ok) ==
    IF m.timer # Null
    THEN trailingEdge([m EXCEPT !.timer = Null], now, ok)
    ELSE m

flush(m, ok) ==
    IF m.timer # Null
    THEN trailingEdge([clearTimeout(m, m.timer) EXCEPT !.timer = Null], now, ok)
    ELSE m

\* The host runs a due task: it leaves the scheduler, then its callback runs.
timerCallback(m, id, ok) ==
    trailingEdge(clearTimeout(m, id), now, ok)

(* ------------------------------ operations ------------------------------ *)
\* The closure and the scheduler take the values the operation left in m.
Commit(m) ==
    /\ timer' = m.timer
    /\ lastArgs' = m.lastArgs
    /\ lastThis' = m.lastThis
    /\ lastCallTime' = m.lastCallTime
    /\ lastInvokeTime' = m.lastInvokeTime
    /\ result' = m.result
    /\ tasks' = m.tasks
    /\ nextId' = m.nextId

\* What an observer records of an operation that took Machine to m and
\* returned ret: the state it found, whether fn was applied and to what, and
\* whether it directly follows a flush() that returned (afterFlush, with what
\* that flush applied and returned) or a cancel() of a pending timer with no
\* proxy call since (afterCancel).
Event(op, m, ret) ==
    [op |-> op,
     prevTimer |-> timer,
     prevDue |-> IF tasks = {} THEN 0 ELSE (CHOOSE t \in tasks : TRUE).due,
     prevArgs |-> lastArgs, prevThis |-> lastThis,
     prevInvoke |-> lastInvokeTime, prevResult |-> result,
     applied |-> m.applied, appArgs |-> m.appArgs, appThis |-> m.appThis,
     threw |-> m.threw,
     ret |-> IF m.threw THEN Undefined ELSE ret,
     afterFlush |-> ev.op = "flush" /\ ~ev.threw,
     flushApplied |-> IF ev.op = "flush" THEN ev.applied ELSE 0,
     flushRet |-> IF ev.op = "flush" THEN ev.ret ELSE Undefined,
     afterCancel |-> cancelled]

\* No operation has run since the clock last moved.
Idle ==
    [op |-> "none",
     prevTimer |-> Null, prevDue |-> 0, prevArgs |-> Null, prevThis |-> Null,
     prevInvoke |-> 0, prevResult |-> Undefined,
     applied |-> 0, appArgs |-> Null, appThis |-> Null,
     threw |-> FALSE, ret |-> Undefined,
     afterFlush |-> FALSE, flushApplied |-> 0, flushRet |-> Undefined,
     afterCancel |-> FALSE]

\* Outcomes of an application of fn: it returns (TRUE) or throws (FALSE).
Outcomes == IF throws THEN BOOLEAN ELSE {TRUE}

\* fn was applied by the operation: how often so far.
Applied(m) ==
    execCount' = execCount + m.applied

\* How often fn was applied by the most recent proxy call and since.
AppliedSinceCall(m) ==
    sinceCall' = sinceCall + m.applied

\* The closure as debounce leaves it, before any operation.
Fresh ==
    /\ timer = Null
    /\ lastArgs = Null
    /\ lastThis = Null
    /\ lastCallTime = Null
    /\ lastInvokeTime = 0
    /\ result = Undefined
    /\ now = 1
    /\ tasks = {}
    /\ nextId = 1
    /\ ev = Idle
    /\ callCount = 0
    /\ execCount = 0
    /\ sinceCall = 0
    /\ callArgs = Null
    /\ callThis = Null
    /\ winCalls = 0
    /\ winExecs = 0
    /\ steady = TRUE
    /\ cancelled = FALSE
    /\ pc = 0

Constructed ==
    /\ wait \in Waits
    /\ leading \in BOOLEAN
    /\ trailing \in BOOLEAN
    /\ maxWait \in MaxWaits
    /\ Fresh

\* The state after debounce(fn, wait, options) returns, fn never throwing.
Init == Constructed /\ throws = FALSE

\* Time passes; a due task runs before the clock moves past its deadline.
Tick ==
    /\ now < MaxTime
    /\ \A t \in tasks : now < t.due
    /\ now' = now + 1
    /\ steady' = (steady /\ (callCount = 0 \/ now + 1 - lastCallTime < wait))
    /\ ev' = Idle
    /\ winCalls' = IF timer = Null THEN 0 ELSE winCalls
    /\ winExecs' = IF timer = Null THEN 0 ELSE winExecs
    /\ UNCHANGED <<config, closure, tasks, nextId, throws>>
    /\ UNCHANGED <<callCount, execCount, sinceCall, callArgs, callThis,
                   cancelled, pc>>

\* debounced.apply(c.this, c.args)
CallBy(c) ==
    /\ \E ok \in Outcomes :
       \E m \in {debounced(Machine, c.args, c.this, ok)} :
         LET opens == timer = Null /\ m.timer # Null
         IN  /\ Commit(m)
             /\ Applied(m)
             /\ ev' = Event("call", m, m.result)
             /\ callCount' = callCount + 1
             /\ sinceCall' = m.applied
             /\ callArgs' = c.args
             /\ callThis' = c.this
             /\ winCalls' = IF opens THEN 1
                            ELSE IF timer # Null THEN winCalls + 1 ELSE winCalls
             /\ winExecs' = IF opens THEN m.applied ELSE winExecs + m.applied
             /\ steady' = (steady /\ ~m.threw)
             /\ cancelled' = FALSE
    /\ UNCHANGED <<config, now, throws>>

\* A proxy call by any of the callers.
Call ==
    /\ callCount < MaxCalls
    /\ \E c \in Callers : CallBy(c)
    /\ UNCHANGED pc

\* The host runs the callback of a task that is due.
TimerFire ==
    /\ \E t \in tasks, ok \in Outcomes :
         /\ t.due <= now
         /\ \E m \in {timerCallback(Machine, t.id, ok)} :
                /\ Commit(m)
                /\ Applied(m)
                /\ ev' = Event("fire", m, Undefined)
                /\ AppliedSinceCall(m)
                /\ winExecs' = winExecs + m.applied
                /\ steady' = (steady /\ ~m.threw)
    /\ UNCHANGED <<config, now, throws, callCount, callArgs, callThis,
                   winCalls, cancelled, pc>>

\* debounced.cancel()
CancelOp ==
    /\ \E m \in {cancel(Machine)} :
           /\ Commit(m)
           /\ Applied(m)
           /\ ev' = Event("cancel", m, Undefined)
           /\ AppliedSinceCall(m)
    /\ cancelled' = (cancelled \/ timer # Null)
    /\ steady' = FALSE
    /\ UNCHANGED <<config, now, throws, callCount, callArgs, callThis,
                   winCalls, winExecs>>

Cancel == CancelOp /\ UNCHANGED pc

\* debounced.flush()
FlushOp ==
    /\ \E ok \in Outcomes :
       \E m \in {flush(Machine, ok)} :
             /\ Commit(m)
             /\ Applied(m)
             /\ ev' = Event("flush", m, m.result)
             /\ AppliedSinceCall(m)
             /\ winExecs' = winExecs + m.applied
    /\ steady' = FALSE
    /\ UNCHANGED <<config, now, throws, callCount, callArgs, callThis,
                   winCalls, cancelled>>

Flush == FlushOp /\ UNCHANGED pc

Next == Tick \/ Call \/ TimerFire \/ Cancel \/ Flush

Spec == Init /\ [][Next]_vars

\* The state after debounce(fn, wait, options) returns, for an fn that may
\* throw on any application.
InitThrow == Constructed /\ throws = TRUE

SpecThrow == InitThrow /\ [][Next]_vars

\* The host scheduler: the clock advances and a due task is eventually run.
\* Proxy calls, cancel() and flush() may stop at any time.
SpecLive == Init /\ [][Next]_vars /\ WF_vars(Tick) /\ WF_vars(TimerFire)

(* --------------------------- the example program ------------------------ *)
\* The example calls at the end of the source, in milliseconds after the
\* program starts: debouncedGreet("Tom") at once, then by setTimeout
\* "Jerry" (2) at 1000, "Lucy" (3) at 3000, "Alice" (4) at 5200, flush() at
\* 6000 and cancel() at 7000.  "Tom" is 1.
ExScript ==
    << [at |-> 0,    op |-> "call",   args |-> 1],
       [at |-> 1000, op |-> "call",   args |-> 2],
       [at |-> 3000, op |-> "call",   args |-> 3],
       [at |-> 5200, op |-> "call",   args |-> 4],
       [at |-> 6000, op |-> "flush",  args |-> Null],
       [at |-> 7000, op |-> "cancel", args |-> Null] >>

\* The example is followed until the clock reads ExEnd.
ExEnd == 10000

\* Milliseconds since the program started.
ExElapsed == now - 1

\* debounce(greet, 2000, {leading: true, trailing: true, maxWait: 5000})
InitExample ==
    /\ wait = 2000
    /\ leading = TRUE
    /\ trailing = TRUE
    /\ maxWait = 5000
    /\ throws = FALSE
    /\ Fresh

\* The next scheduled step of the example is due now and is an op.
ExDue(op) ==
    /\ pc < Len(ExScript)
    /\ ExScript[pc + 1].op = op
    /\ ExScript[pc + 1].at = ExElapsed

\* The clock moves by 100 ms, not past a due task or a due step.
ExTick ==
    /\ now + 100 <= ExEnd
    /\ \A t \in tasks : now < t.due
    /\ pc < Len(ExScript) => ExElapsed < ExScript[pc + 1].at
    /\ now' = now + 100
    /\ steady' = (steady /\ (callCount = 0 \/ now + 100 - lastCallTime < wait))
    /\ ev' = Idle
    /\ winCalls' = IF timer = Null THEN 0 ELSE winCalls
    /\ winExecs' = IF timer = Null THEN 0 ELSE winExecs
    /\ UNCHANGED <<config, closure, tasks, nextId, throws>>
    /\ UNCHANGED <<callCount, execCount, sinceCall, callArgs, callThis,
                   cancelled, pc>>

\* debouncedGreet(name)
ExCall ==
    /\ ExDue("call")
    /\ CallBy([args |-> ExScript[pc + 1].args, this |-> 1])
    /\ pc' = pc + 1

\* debouncedGreet.flush()
ExFlush ==
    /\ ExDue("flush")
    /\ FlushOp
    /\ pc' = pc + 1

\* debouncedGreet.cancel()
ExCancel ==
    /\ ExDue("cancel")
    /\ CancelOp
    /\ pc' = pc + 1

NextExample == ExTick \/ ExCall \/ ExFlush \/ ExCancel \/ TimerFire

SpecExample == InitExample /\ [][NextExample]_vars

TypeOK ==
    /\ timer \in Nat
    /\ lastArgs \in Args \cup {Null}
    /\ lastThis \in Contexts \cup {Null}
    /\ now \in 1..MaxTime
    /\ execCount \in 0..MaxCalls

(* -------------------------------- claims -------------------------------- *)

\* C1 (P1 coalescing).  With trailing = true and leading = false, while a
\* timer is outstanding nothing has been executed for its window, and when the
\* timer fires fn is applied exactly once for the window, to the arguments and
\* receiver of the most recent proxy call.
C1_Coalescing ==
    (~leading /\ trailing) =>
        /\ timer # Null => winExecs = 0
        /\ ev.op = "fire" =>
              /\ ev.applied = 1
              /\ winExecs = 1
              /\ ev.appArgs = callArgs
              /\ ev.appThis = callThis

\* A window of three calls has just been closed by its timer.
C1_Witness ==
    /\ ~leading /\ trailing
    /\ ev.op = "fire" /\ winCalls = 3
    /\ ev.applied = 1 /\ ev.appArgs = callArgs

\* C2 (P3 maxWait forces progress).  With maxWait set, while the proxy has been
\* called with every gap shorter than wait (steady), the time since the last
\* execution never exceeds maxWait.  Stated for the default trailing = true.
C2_MaxWaitForcesProgress ==
    (maxWait # NoMaxWait /\ trailing /\ steady /\ execCount >= 1) =>
        now - lastInvokeTime <= maxWait

\* C3 as claimed.  With leading = true, every proxy call that arrives when no
\* timer is outstanding applies fn at once to its own arguments.
C3_LeadingEveryWindow ==
    (leading /\ ev.op = "call" /\ ev.prevTimer = Null) =>
        (ev.applied = 1 /\ ev.appArgs = callArgs)

\* C3 as amended.  With leading = true, a proxy call that arrives when no timer
\* is outstanding applies fn at once, to its own arguments and receiver,
\* exactly when lastInvokeTime is 0 (nothing executed yet, or since the last
\* cancel) or maxWait is set and has elapsed since lastInvokeTime; otherwise
\* the call applies nothing.
C3_LeadingWhenForced ==
    (leading /\ ev.op = "call" /\ ev.prevTimer = Null) =>
        IF \/ ev.prevInvoke = 0
           \/ (maxWait # NoMaxWait /\ now - ev.prevInvoke >= maxWait)
        THEN ev.applied = 1 /\ ev.appArgs = callArgs /\ ev.appThis = callThis
        ELSE ev.applied = 0

\* A later window, opened after an earlier execution once maxWait has elapsed,
\* has executed on its leading edge.
C3_Witness ==
    /\ leading /\ ev.op = "call" /\ ev.prevTimer = Null
    /\ ev.prevInvoke # 0 /\ execCount >= 2
    /\ ev.applied = 1 /\ ev.appArgs = callArgs

\* C4 (P4 cancel suppresses).  After cancel() of an outstanding timer and until
\* the next proxy call, no timer and no task is left, nothing is pending and no
\* operation applies fn; the next proxy call, with leading = true, applies fn
\* at once to its own arguments.
C4_CancelSuppresses ==
    /\ cancelled =>
          /\ timer = Null /\ tasks = {} /\ lastArgs = Null
          /\ ev.applied = 0
    /\ (ev.op = "call" /\ ev.afterCancel /\ leading) =>
          /\ ev.applied = 1
          /\ ev.appArgs = callArgs
          /\ ev.appThis = callThis

\* The first call after a cancel has executed on the leading edge, as an
\* earlier call had.
C4_Witness ==
    /\ leading /\ ev.op = "call" /\ ev.afterCancel
    /\ ev.applied = 1 /\ execCount = 2

\* C5 (P5 flush).  flush() with a timer outstanding and arguments pending
\* (trailing = true) applies fn to the pending arguments and receiver, leaves
\* no timer and no task, and returns the result of that application; a flush()
\* directly after a flush() applies nothing and returns what the first one
\* returned; flush() with no timer outstanding applies nothing and returns the
\* stored result.
C5_Flush ==
    ev.op = "flush" =>
        /\ (ev.prevTimer # Null /\ ev.prevArgs # Null /\ trailing) =>
              /\ ev.applied = 1
              /\ ev.appArgs = ev.prevArgs /\ ev.appThis = ev.prevThis
              /\ timer = Null /\ tasks = {}
              /\ ev.ret = Fn(ev.prevThis, ev.prevArgs)
              /\ result = ev.ret
        /\ ev.afterFlush =>
              /\ ev.applied = 0
              /\ ev.ret = ev.flushRet
              /\ result = ev.flushRet
        /\ ev.prevTimer = Null =>
              /\ ev.applied = 0
              /\ ev.ret = ev.prevResult
              /\ result = ev.prevResult

\* A second flush() has returned the result of the application made by the
\* flush() before it.
C5_Witness ==
    /\ ev.op = "flush" /\ ev.afterFlush /\ ev.flushApplied = 1
    /\ ev.applied = 0 /\ ev.ret = ev.flushRet /\ ev.ret # Undefined

\* C6 (P6 no timer leak).  At most one task of the controller is scheduled, and
\* the timer handle is that task's handle exactly when one is scheduled.
C6_NoTimerLeak ==
    /\ Cardinality(tasks) <= 1
    /\ timer = Null <=> tasks = {}
    /\ \A t \in tasks : t.id = timer

\* A proxy call has replaced an outstanding timer by a new one.
C6_Witness ==
    /\ ev.op = "call" /\ ev.prevTimer # Null
    /\ timer # Null /\ timer # ev.prevTimer
    /\ Cardinality(tasks) = 1

\* C7 as claimed.  With leading and trailing both true and a single proxy call,
\* once the timer of its window has fired fn has been applied twice.
C7_SingleCallTwice ==
    (leading /\ trailing /\ callCount = 1 /\ ev.op = "fire") =>
        execCount = 2

\* C7 as amended.  With leading and trailing both true and a single proxy call,
\* fn is applied exactly once, at the call; the timer firing applies nothing.
C7_SingleCallOnce ==
    (leading /\ trailing /\ callCount = 1) =>
        /\ execCount = 1
        /\ ev.op = "fire" => ev.applied = 0

\* The timer of the single call's window has fired.
C7_Witness ==
    /\ leading /\ trailing /\ callCount = 1
    /\ ev.op = "fire" /\ execCount = 1

\* C8 (maxWait smaller than wait).  With maxWait < wait, a proxy call that
\* arrives in a pending window once maxWait has elapsed since the last
\* execution applies fn, or at least leaves the pending execution due no later
\* than it was.  Stated for the default trailing = true.
C8_ForcedBeforeTrailingDelay ==
    (/\ maxWait # NoMaxWait /\ maxWait < wait /\ trailing
     /\ ev.op = "call" /\ ev.prevTimer # Null
     /\ ev.prevInvoke # 0 /\ now - ev.prevInvoke >= maxWait) =>
        \/ ev.applied = 1
        \/ \A t \in tasks : t.due <= ev.prevDue

\* C9 (delay measured from the last call).  When the timer fires and applies
\* fn, at least wait has passed since the most recent proxy call.  Stated for
\* a most recent call made strictly before the instant of the firing.
C9_DelayFromLastCall ==
    (ev.op = "fire" /\ ev.applied = 1 /\ lastCallTime < now) =>
        now - lastCallTime >= wait

\* C10 (P2 leading-only).  With leading = true and trailing = false, a proxy
\* call that arrives while a timer is outstanding applies nothing, the timer
\* firing applies nothing, and a window sees at most one application.
C10_LeadingOnly ==
    (leading /\ ~trailing) =>
        /\ (ev.op = "call" /\ ev.prevTimer # Null) => ev.applied = 0
        /\ ev.op = "fire" => ev.applied = 0
        /\ winExecs <= 1

\* A window whose first call executed and whose second did not has been closed
\* by its timer.
C10_Witness ==
    /\ leading /\ ~trailing
    /\ ev.op = "fire" /\ winCalls = 2 /\ winExecs = 1

\* C11 as claimed.  cancel() called with no timer outstanding and nothing
\* pending leaves timer, tasks, pending arguments and receiver, lastInvokeTime
\* and result as they were.
C11_CancelNoOp ==
    (ev.op = "cancel" /\ ev.prevTimer = Null /\ ev.prevArgs = Null) =>
        /\ timer = Null /\ tasks = {}
        /\ lastArgs = Null /\ lastThis = Null
        /\ result = ev.prevResult
        /\ lastInvokeTime = ev.prevInvoke

\* C11 as amended.  cancel() called with no timer outstanding and nothing
\* pending applies nothing and leaves timer, tasks, pending arguments and
\* receiver and result as they were, but sets lastInvokeTime to 0.
C11_CancelKeepsAllButInvokeTime ==
    (ev.op = "cancel" /\ ev.prevTimer = Null /\ ev.prevArgs = Null) =>
        /\ ev.applied = 0
        /\ timer = Null /\ tasks = {}
        /\ lastArgs = Null /\ lastThis = Null
        /\ result = ev.prevResult
        /\ lastInvokeTime = 0

\* cancel() has run with nothing pending after an execution that left a result.
C11_Witness ==
    /\ ev.op = "cancel" /\ ev.prevTimer = Null /\ ev.prevArgs = Null
    /\ ev.prevInvoke # 0 /\ result # Undefined

\* C12 as claimed.  No operation (proxy call, timer firing, cancel, flush)
\* lowers lastInvokeTime.
C12_InvokeTimeMonotonic ==
    ev.op # "none" => lastInvokeTime >= ev.prevInvoke

\* C12 as amended.  A proxy call, a timer firing and a flush never lower
\* lastInvokeTime; cancel() sets it to 0.
C12_InvokeTimeMonotonicButCancel ==
    /\ ev.op \in {"call", "fire", "flush"} => lastInvokeTime >= ev.prevInvoke
    /\ ev.op = "cancel" => lastInvokeTime = 0

\* A timer firing has raised lastInvokeTime above an earlier execution time.
C12_Witness ==
    /\ ev.op = "fire" /\ ev.prevInvoke # 0
    /\ lastInvokeTime > ev.prevInvoke

\* C13 (scenario B).  With leading = false and trailing = false fn is never
\* applied, the stored result stays undefined, and flush() returns undefined.
C13_Degenerate ==
    (~leading /\ ~trailing) =>
        /\ execCount = 0
        /\ ev.applied = 0
        /\ result = Undefined
        /\ ev.op = "flush" => ev.ret = Undefined

\* flush() has run on a pending window of two calls in the degenerate
\* configuration.
C13_Witness ==
    /\ ~leading /\ ~trailing
    /\ ev.op = "flush" /\ ev.prevTimer # Null /\ ev.prevArgs # Null
    /\ winCalls >= 2 /\ execCount = 0

C17_ReturnsStoredResult ==
    /\ execCount = 0 => result = Undefined
    /\ ev.op # "none" =>
          IF ev.applied = 1
          THEN result = Fn(ev.appThis, ev.appArgs)
          ELSE result = ev.prevResult
    /\ ev.op = "call" =>
          /\ ev.ret = result
          /\ ev.applied = 1 => ev.ret = Fn(callThis, callArgs)
          /\ ev.applied = 0 => ev.ret = ev.prevResult

\* The first call after a cancel() has applied nothing and returned the result
\* of an earlier execution.
C17_Witness ==
    /\ ev.op = "call" /\ ev.afterCancel /\ ev.applied = 0
    /\ ev.ret # Undefined /\ ev.ret = ev.prevResult

\* C14.  When fn throws inside a proxy call or inside flush(), the pending
\* arguments and receiver are absent afterwards, as after an application that
\* returned, and at most one task is scheduled, the one the timer handle names.
C14_ThrowConsumesPending ==
    (ev.threw /\ ev.op \in {"call", "flush"}) =>
        /\ lastArgs = Null /\ lastThis = Null
        /\ Cardinality(tasks) <= 1
        /\ \A t \in tasks : t.id = timer

\* C18.  After every operation that did not throw, pending arguments are
\* present only if a timer is outstanding.
C18_PendingImpliesTimer ==
    (ev.op # "none" /\ ~ev.threw) =>
        (lastArgs # Null => timer # Null)

\* C19.  Whenever fn is applied it receives the arguments and the receiver of
\* the most recent proxy call, never absent ones; between two proxy calls fn is
\* applied at most once, so that no call's arguments are passed twice and the
\* applications never outnumber the calls.
C19_ExecutesLatestCallOnce ==
    /\ ev.applied <= 1
    /\ ev.applied = 1 =>
          /\ ev.appArgs # Null /\ ev.appThis # Null
          /\ ev.appArgs = callArgs /\ ev.appThis = callThis
    /\ sinceCall <= 1
    /\ execCount <= callCount

\* A flush() has applied fn to the arguments of the second of two calls, the
\* first of which had been executed on the leading edge.
C19_Witness ==
    /\ ev.op = "flush" /\ ev.applied = 1 /\ ev.appArgs = callArgs
    /\ callCount = 2 /\ execCount = 2 /\ sinceCall = 1

\* C20.  With trailing = true, after the k-th proxy call has left a timer due
\* within the run, the controller eventually has no timer, no task and nothing
\* pending, with fn applied exactly once by that call or since, unless another
\* proxy call or a cancel() of the timer comes first.
C20_EventuallyQuiescent ==
    \A k \in 1..MaxCalls :
        (/\ trailing /\ callCount = k /\ ev.op = "call"
         /\ timer # Null /\ \A t \in tasks : t.due <= MaxTime)
        ~> (\/ callCount # k
            \/ cancelled
            \/ (/\ timer = Null /\ tasks = {} /\ lastArgs = Null
                /\ sinceCall = 1))

\* The timer of the last call allowed has fired and applied its arguments,
\* with no cancel() in between.
C20_Witness ==
    /\ trailing /\ callCount = MaxCalls /\ ~cancelled
    /\ ev.op = "fire" /\ ev.applied = 1 /\ ev.appArgs = callArgs
    /\ timer = Null /\ tasks = {} /\ lastArgs = Null /\ sinceCall = 1

\* C15 (the example schedule).  In the example fn is applied only to Tom by
\* the call at 0, to Jerry by the timer at about 3000, to Lucy by the timer at
\* about 5000 and to Alice by flush() at 6000; the call at 5200 and cancel()
\* apply nothing; once all steps have run fn has been applied four times.
\* "About" allows 500 ms either way.
C15_ExampleSchedule ==
    /\ ev.applied = 1 =>
          \/ ev.appArgs = 1 /\ ev.op = "call" /\ ExElapsed = 0
          \/ ev.appArgs = 2 /\ ev.op = "fire" /\ ExElapsed \in 2500..3500
          \/ ev.appArgs = 3 /\ ev.op = "fire" /\ ExElapsed \in 4500..5500
          \/ ev.appArgs = 4 /\ ev.op = "flush" /\ ExElapsed = 6000
    /\ (ev.op = "call" /\ callArgs = 4) => ev.applied = 0
    /\ ev.op = "cancel" => ev.applied = 0
    /\ pc = Len(ExScript) => execCount = 4

\* What the code does in the example, for comparison: the same four
\* applications, but Jerry at 2000.
C15_ExampleAsCoded ==
    /\ ev.applied = 1 =>
          \/ ev.appArgs = 1 /\ ev.op = "call" /\ ExElapsed = 0
          \/ ev.appArgs = 2 /\ ev.op = "fire" /\ ExElapsed = 2000
          \/ ev.appArgs = 3 /\ ev.op = "fire" /\ ExElapsed = 5000
          \/ ev.appArgs = 4 /\ ev.op = "flush" /\ ExElapsed = 6000
    /\ (ev.op = "call" /\ callArgs = 4) => ev.applied = 0
    /\ ev.op = "cancel" => ev.applied = 0
    /\ pc = Len(ExScript) => execCount = 4
====
